---- MODULE Spec2Model ----
(***************************************************************************)
(* Model of DectrisTools/continuous_experiment.py: the continuous          *)
(* experiment sequencer (run), its acquisition primitive (acquire_image),  *)
(* the delay parser (parse_timedelays) and the stage mapping               *)
(* (move_stages_to_time).                                                  *)
(*                                                                         *)
(* Time delays are floats rounded to 3 decimals in the source; here a      *)
(* delay is the integer number of femtoseconds (delay * 1000). Where the   *)
(* code's result depends on double arithmetic (the length np.arange        *)
(* computes, round() of a literal of more than 3 decimals) the doubles are *)
(* computed bit for bit.                                                   *)
(* Exceptions are named by their Python class; "None" is Python's None.    *)
(***************************************************************************)
EXTENDS Integers, Sequences, FiniteSets, Bags, TLC

\* ---------------------------------------------------------------- bounds
MaxScans == 2       \* n_scans ranges over 0..MaxScans
MaxFail == 2        \* a fake detector times out 0..MaxFail times, then succeeds
MaxTime == 1        \* the epoch clock advances at most MaxTime seconds in a run
MaxElems == 3       \* a string given to the parser alone has 1..MaxElems elements
MaxMs == 8          \* exposures and trigger periods of the configuration alone, in ms

\* ------------------------------------------------------- program constants
DIR_PUMP_OFF == "pump_off"
DIR_LASER_BG == "laser_background"
DIR_DARK == "dark_image"
T0_POS == 100

\* ------------------------------------------------------ string formatting
\* zero-padding on the left to width w, as the 0 flag of a format spec does
ZeroPad(s, w) == IF Len(s) >= w THEN s ELSE SubSeq("0000000000", 1, w - Len(s)) \o s

\* f"{n:04d}" for n >= 0
Fmt04d(n) == ZeroPad(ToString(n), 4)

\* f"{t:010.0f}" for a whole number of seconds t >= 0
Fmt010_0f(t) == ZeroPad(ToString(t), 10)

Abs(d) == IF d < 0 THEN 0 - d ELSE d

FmtPlus010_3f_sign_of_negatives_only(d) ==
    (IF d < 0 THEN "-" ELSE "0")
        \o ZeroPad(ToString(Abs(d) \div 1000) \o "." \o ZeroPad(ToString(Abs(d) % 1000), 3), 9)

\* f"{delay:+010.3f}": sign, then digits zero-padded so that the whole is 10 wide
FmtPlus010_3f(d) ==
    (IF d < 0 THEN "-" ELSE "+")
        \o ZeroPad(ToString(Abs(d) \div 1000) \o "." \o ZeroPad(ToString(Abs(d) % 1000), 3), 9)

\* f"{delay:.1f}": one decimal, round-half-even on the exactly representable
\* ties (.25, .75); defined for the delays of DelayArgs
Fmt_1f(d) ==
    LET m == Abs(d)
        q == m \div 100
        r == m % 100
        up == r > 50 \/ (r = 50 /\ q % 2 = 1)
        t == IF up THEN q + 1 ELSE q
    IN (IF d < 0 THEN "-" ELSE "")
           \o ToString(t \div 10) \o "." \o ToString(t % 10)

scandir_name(i) == "scan_" \o Fmt04d(i + 1)

pumpon_filename(delay) == "pumpon_" \o FmtPlus010_3f(delay) \o "ps.tif"

epoch_filename(prefix, t) == prefix \o Fmt010_0f(t) \o "s.tif"

\* ------------------------------------------------ natural numbers of any size
\* little-endian limbs in base 2^15, no leading zero limb; << >> is zero
Base == 32768

RECURSIVE BNorm(_)
BNorm(a) == IF a = << >> THEN a
            ELSE IF a[Len(a)] = 0 THEN BNorm(SubSeq(a, 1, Len(a) - 1)) ELSE a

RECURSIVE BFromInt(_)
BFromInt(n) == IF n = 0 THEN << >> ELSE << n % Base >> \o BFromInt(n \div Base)

RECURSIVE BCmpAt(_, _, _)
BCmpAt(a, b, k) ==
    IF k = 0 THEN 0
    ELSE IF a[k] < b[k] THEN 0 - 1
    ELSE IF a[k] > b[k] THEN 1
    ELSE BCmpAt(a, b, k - 1)

\* -1, 0, 1 as a < b, a = b, a > b
BCmp(a, b) ==
    IF Len(a) < Len(b) THEN 0 - 1
    ELSE IF Len(a) > Len(b) THEN 1
    ELSE BCmpAt(a, b, Len(a))

Limb(a, k) == IF k <= Len(a) THEN a[k] ELSE 0

RECURSIVE BAddAt(_, _, _, _)
BAddAt(a, b, k, carry) ==
    IF k > Len(a) /\ k > Len(b)
    THEN IF carry = 0 THEN << >> ELSE << carry >>
    ELSE LET s == Limb(a, k) + Limb(b, k) + carry
         IN << s % Base >> \o BAddAt(a, b, k + 1, s \div Base)

BAdd(a, b) == BAddAt(a, b, 1, 0)

RECURSIVE BSubAt(_, _, _, _)
BSubAt(a, b, k, borrow) ==
    IF k > Len(a) THEN << >>
    ELSE LET s == a[k] - Limb(b, k) - borrow
         IN << IF s < 0 THEN s + Base ELSE s >>
                \o BSubAt(a, b, k + 1, IF s < 0 THEN 1 ELSE 0)

\* a - b for a >= b
BSub(a, b) == BNorm(BSubAt(a, b, 1, 0))

RECURSIVE BMulSmallAt(_, _, _, _)
BMulSmallAt(a, s, k, carry) ==
    IF k > Len(a)
    THEN IF carry = 0 THEN << >> ELSE << carry >>
    ELSE LET p == a[k] * s + carry
         IN << p % Base >> \o BMulSmallAt(a, s, k + 1, p \div Base)

\* a * s for 0 < s < Base
BMulSmall(a, s) == IF a = << >> THEN a ELSE BMulSmallAt(a, s, 1, 0)

BDouble(a) == BMulSmall(a, 2)

BOdd(a) == a # << >> /\ a[1] % 2 = 1

\* a * 2^n
BShl(a, n) ==
    IF a = << >> THEN a
    ELSE [k \in 1..(n \div 15) |-> 0] \o BMulSmall(a, 2 ^ (n % 15))

\* the number of binary digits of a
BitLen(a) ==
    IF a = << >> THEN 0
    ELSE 15 * (Len(a) - 1)
         + (CHOOSE b \in 1..15 : 2 ^ (b - 1) <= a[Len(a)] /\ a[Len(a)] < 2 ^ b)

RECURSIVE BToInt(_)
BToInt(a) == IF a = << >> THEN 0 ELSE a[1] + Base * BToInt(Tail(a))

RECURSIVE Digit(_, _, _, _)
\* the largest t < Base with t * d <= rem, found bit by bit from bit b down
Digit(rem, d, b, t) ==
    IF b < 0 THEN t
    ELSE IF BCmp(BMulSmall(d, t + 2 ^ b), rem) <= 0
         THEN Digit(rem, d, b - 1, t + 2 ^ b)
         ELSE Digit(rem, d, b - 1, t)

RECURSIVE BDivAt(_, _, _)
\* schoolbook division: quotient limbs pos..0 of rem / q, and the remainder
BDivAt(rem, q, pos) ==
    IF pos < 0 THEN [q |-> << >>, r |-> rem]
    ELSE LET Above(t, lower) == [q |-> lower.q \o << t >>, r |-> lower.r]
             Take(d, t) ==
                 Above(t, BDivAt(IF t = 0 THEN rem ELSE BSub(rem, BMulSmall(d, t)), q, pos - 1))
             At(d) == Take(d, Digit(rem, d, 14, 0))
         IN At([k \in 1..pos |-> 0] \o q)

\* floor(p / q) and p mod q, for q > 0
BDivMod(p, q) ==
    LET Normal(dm) == [q |-> BNorm(dm.q), r |-> dm.r]
    IN Normal(BDivAt(p, q, Len(p) - Len(q)))

\* ------------------------------------------------------------ IEEE doubles
\* a positive double is [m, e]: the value m * 2^e with 2^52 <= m < 2^53
Two52 == BShl(<< 1 >>, 52)
Two53 == BShl(<< 1 >>, 53)

\* the double nearest to (p / q) * 2^e, ties to even, for p, q > 0
RoundToDouble(p, q, e) ==
    LET Carried(m, x) == IF m = Two53 THEN [m |-> Two52, e |-> x + 1] ELSE [m |-> m, e |-> x]
        \* c is the sign of remainder - den / 2
        Nearest(dm, c, x) ==
            Carried(IF c > 0 \/ (c = 0 /\ BOdd(dm.q)) THEN BAdd(dm.q, << 1 >>) ELSE dm.q, x)
        Rounded(dm, den, x) == Nearest(dm, BCmp(BDouble(dm.r), den), x)
        Quotient(num, den, x) == Rounded(BDivMod(num, den), den, x)
        \* 2^52 <= (p * 2^s) / q < 2^53
        Scaled(s) == IF s >= 0 THEN Quotient(BShl(p, s), q, e - s)
                     ELSE Quotient(p, BShl(q, 0 - s), e - s)
        Fit(s0, num, den) == Scaled(IF BCmp(num, BShl(den, 53)) >= 0 THEN s0 - 1 ELSE s0)
        Try(s0) == IF s0 >= 0 THEN Fit(s0, BShl(p, s0), q) ELSE Fit(s0, p, BShl(q, 0 - s0))
    IN Try(53 - (BitLen(p) - BitLen(q)))


\* a double is [s, m, e]: the value s * m * 2^e, s in {-1, 0, 1}
Zero == [s |-> 0, m |-> << >>, e |-> 0]

Signed(s, r) == [s |-> s, m |-> r.m, e |-> r.e]

\* the double of the decimal n / 10^d: what float() makes of a literal
ToDouble(n, d) ==
    IF n = 0 THEN Zero
    ELSE Signed(IF n < 0 THEN 0 - 1 ELSE 1,
                RoundToDouble(BFromInt(Abs(n)), BFromInt(10 ^ d), 0))

Min(a, b) == IF a < b THEN a ELSE b

\* x - y in double arithmetic: the exact difference, rounded once
FSub(x, y) ==
    IF y.s = 0 THEN x
    ELSE IF x.s = 0 THEN [y EXCEPT !.s = 0 - y.s]
    ELSE LET Result(s, d, e0) ==
                 IF d = << >> THEN Zero ELSE Signed(s, RoundToDouble(d, << 1 >>, e0))
             Ordered(X, Y, c, e0) ==
                 Result(IF x.s # y.s \/ c >= 0 THEN x.s ELSE 0 - x.s,
                        IF x.s # y.s THEN BAdd(X, Y)
                        ELSE IF c >= 0 THEN BSub(X, Y) ELSE BSub(Y, X),
                        e0)
             Aligned(X, Y, e0) == Ordered(X, Y, BCmp(X, Y), e0)
             Common(e0) == Aligned(BShl(x.m, x.e - e0), BShl(y.m, y.e - e0), e0)
         IN Common(Min(x.e, y.e))

\* x / y in double arithmetic, y # 0
FDiv(x, y) ==
    IF x.s = 0 THEN Zero
    ELSE Signed(x.s * y.s, RoundToDouble(x.m, y.m, x.e - y.e))

\* ceil(x) as an integer
Ceil(x) ==
    IF x.s = 0 THEN 0
    ELSE IF x.e >= 0 THEN x.s * BToInt(BShl(x.m, x.e))
    ELSE LET Up(dm) == IF x.s > 0 /\ dm.r # << >> THEN 1 ELSE 0
             Whole(dm) == x.s * BToInt(dm.q) + Up(dm)
         IN Whole(BDivMod(x.m, BShl(<< 1 >>, 0 - x.e)))

RECURSIVE BMulPow10(_, _)
BMulPow10(a, k) == IF k = 0 THEN a ELSE BMulPow10(BMulSmall(a, 10), k - 1)

\* the sign of x - n / 10^k for a double x > 0 and an integer n > 0
CmpDecimal(x, n, k) ==
    IF x.e >= 0 THEN BCmp(BMulPow10(BShl(x.m, x.e), k), BFromInt(n))
    ELSE BCmp(BMulPow10(x.m, k), BShl(BFromInt(n), 0 - x.e))


\* ------------------------------------------------------ parse_timedelays
\* The characters the inputs of the model are written with: digits, sign,
\* point, the separators "," and ":", and the letters of "nan" and "abc".
\* float() also reads exponents, "inf", underscores and surrounding blanks;
\* those spellings are not among ElemStrings.
Char(s, k) == SubSeq(s, k, k)

RECURSIVE split(_, _)
\* str.split(sep): the pieces between the separators, empty pieces kept
split(s, sep) ==
    LET hits == { k \in 1..Len(s) : Char(s, k) = sep }
    IN IF hits = {} THEN << s >>
       ELSE LET k == CHOOSE h \in hits : \A g \in hits : h <= g
            IN << SubSeq(s, 1, k - 1) >> \o split(SubSeq(s, k + 1, Len(s)), sep)

Digits == "0123456789"
IsDigit(ch) == \E k \in 1..10 : Char(Digits, k) = ch
DigitVal(ch) == (CHOOSE k \in 1..10 : Char(Digits, k) = ch) - 1

RECURSIVE int_of(_)
int_of(s) == IF s = "" THEN 0
             ELSE 10 * int_of(SubSeq(s, 1, Len(s) - 1)) + DigitVal(Char(s, Len(s)))

\* float("nan"); no delay of the model is this large
NaN == 0 - 2 ^ 30

\* float(s): ok is FALSE for a ValueError; otherwise the value is n / 10^d
float(s) ==
    LET signed == s # "" /\ Char(s, 1) \in {"+", "-"}
        body == IF signed THEN SubSeq(s, 2, Len(s)) ELSE s
        dots == { k \in 1..Len(body) : Char(body, k) = "." }
        dot == IF dots = {} THEN Len(body) + 1 ELSE CHOOSE k \in dots : TRUE
        ip == SubSeq(body, 1, dot - 1)
        fp == SubSeq(body, dot + 1, Len(body))
        wellformed == /\ Cardinality(dots) <= 1
                      /\ Len(ip) + Len(fp) > 0
                      /\ \A k \in 1..Len(body) : k \in dots \/ IsDigit(Char(body, k))
        mag == int_of(ip \o fp)
    IN IF body = "nan" THEN [ok |-> TRUE, n |-> NaN, d |-> 0]
       ELSE IF wellformed
            THEN [ok |-> TRUE, n |-> IF Char(s, 1) = "-" THEN 0 - mag ELSE mag, d |-> Len(fp)]
            ELSE [ok |-> FALSE, n |-> 0, d |-> 0]

\* An element of the comma-separated string, after float()/split(":"):
\* a float, a start:step:stop triple of floats, or anything else.
\* A float is a * 10^-(3+b) ps: a whole number a of femtoseconds when b = 0.
\* The parts of a triple are in femtoseconds (literals of at most 3 decimals).
Float(v) == [kind |-> "float", a |-> v, b |-> 0, c |-> 0]
Range(start, step, stop) == [kind |-> "range", a |-> start, b |-> step, c |-> stop]
Malformed == [kind |-> "bad", a |-> 0, b |-> 0, c |-> 0]

\* the value of a literal of at most 3 decimals, in femtoseconds
Femto(f) == IF f.n = NaN THEN NaN ELSE f.n * 10 ^ (3 - f.d)

\* try float(elem); except ValueError: try start, step, stop = map(float, ...)
element(elem) ==
    LET Triple(fls) ==
            IF Len(fls) = 3 /\ \A k \in 1..3 : fls[k].ok
            THEN Range(Femto(fls[1]), Femto(fls[2]), Femto(fls[3]))
            ELSE Malformed
        Mapped(parts) == Triple([k \in 1..Len(parts) |-> float(parts[k])])
        Tried(fl) ==
            IF fl.ok
            THEN IF fl.n = NaN \/ fl.d <= 3 THEN Float(Femto(fl))
                 ELSE [kind |-> "float", a |-> fl.n, b |-> fl.d - 3, c |-> 0]
            ELSE Mapped(split(elem, ":"))
    IN Tried(float(elem))

\* the length np.arange gives the array: ceil((stop - start) / step), computed
\* in double arithmetic on the doubles of the three literals
arange_length(start, stop, step) ==
    Ceil(FDiv(FSub(ToDouble(stop, 3), ToDouble(start, 3)), ToDouble(step, 3)))

\* np.round(np.arange(start, stop, step), 3): the k-th value start + k * step,
\* which rounding to 3 decimals makes the exact multiple of 0.001
arange(start, stop, step) ==
    LET Values(n) == [k \in 1..n |-> start + (k - 1) * step]
    IN Values(arange_length(start, stop, step))

\* round(n, 3) of the double of the decimal n / 10^(3+b), in femtoseconds: the
\* nearest multiple of 0.001 to the double (not to the decimal); an exact tie
\* goes to the even neighbour
round(n, b) ==
    IF b = 0 THEN n
    ELSE LET q == Abs(n) \div 10 ^ b
             r == Abs(n) % 10 ^ b
             half == 5 * 10 ^ (b - 1)
             Tie(cmp) == cmp > 0 \/ (cmp = 0 /\ q % 2 = 1)
             up == r > half
                   \/ (r = half /\ Tie(CmpDecimal(ToDouble(Abs(n), 3 + b), Abs(n), 3 + b)))
         IN (IF n < 0 THEN 0 - 1 ELSE 1) * (IF up THEN q + 1 ELSE q)

RECURSIVE parse_elements_skipping(_, _)
parse_elements_skipping(elements, timedelays) ==
    IF elements = << >> THEN [fail |-> FALSE, out |-> timedelays]
    ELSE LET elem == Head(elements) IN
         parse_elements_skipping(Tail(elements),
             IF elem.kind = "float" THEN Append(timedelays, << elem.a, elem.b >>)
             ELSE timedelays)

RECURSIVE parse_elements(_, _)
\* the for loop over elements; "fail" is the bare except returning [].
\* timedelays holds <<a, b>> pairs: the value a * 10^-(3+b) ps, not yet rounded
parse_elements(elements, timedelays) ==
    IF elements = << >> THEN [fail |-> FALSE, out |-> timedelays]
    ELSE LET elem == Head(elements) IN
         IF elem.kind = "float"
         THEN parse_elements(Tail(elements), Append(timedelays, << elem.a, elem.b >>))
         ELSE IF /\ elem.kind = "range"
                 /\ NaN \notin {elem.a, elem.b, elem.c}
                 /\ elem.b # 0
         THEN LET Extended(fl) == timedelays \o [k \in 1..Len(fl) |-> << fl[k], 0 >>]
              IN parse_elements(Tail(elements), Extended(arange(elem.a, elem.c, elem.b)))
         ELSE [fail |-> TRUE, out |-> << >>]

\* x < y on floats: every comparison with nan is false
lt(x, y) == x # NaN /\ y # NaN /\ x < y

RECURSIVE count_run(_, _, _)
\* list.sort: the end of the run that starts the list, descending or not
count_run(s, k, descending) ==
    IF k < Len(s) /\ lt(s[k + 1], s[k]) = descending
    THEN count_run(s, k + 1, descending) ELSE k

reverse(s) == [k \in 1..Len(s) |-> s[Len(s) + 1 - k]]

RECURSIVE bisect(_, _, _, _)
\* list.sort: where the pivot goes in the sorted s[l..r-1]
bisect(s, pivot, l, r) ==
    IF l >= r THEN l
    ELSE LET p == l + (r - l) \div 2
         IN IF lt(pivot, s[p]) THEN bisect(s, pivot, l, p) ELSE bisect(s, pivot, p + 1, r)

RECURSIVE binarysort(_, _)
\* list.sort: binary insertion of s[k], s[k+1], ... into the sorted s[1..k-1]
binarysort(s, k) ==
    IF k > Len(s) THEN s
    ELSE LET at == bisect(s, s[k], 1, k)
         IN binarysort(SubSeq(s, 1, at - 1) \o << s[k] >> \o SubSeq(s, at, k - 1)
                           \o SubSeq(s, k + 1, Len(s)), k + 1)

sorted_unique(s) ==
    LET vals == { s[k] : k \in DOMAIN s }
    IN SortSeq(CHOOSE q \in [1..Cardinality(vals) -> vals] : { q[k] : k \in DOMAIN q } = vals,
               LAMBDA x, y : x < y)

\* sorted(s) for a list shorter than 64: one run, the rest inserted
sorted(s) ==
    IF Len(s) < 2 THEN s
    ELSE LET descending == lt(s[2], s[1])
             n == count_run(s, 2, descending)
             run == SubSeq(s, 1, n)
         IN binarysort((IF descending THEN reverse(run) ELSE run)
                           \o SubSeq(s, n + 1, Len(s)), n + 1)

\* parse_timedelays(time_str): the sorted list of delays in femtoseconds
parse_timedelays(time_str) ==
    LET Rounded(t) == IF t[1] = NaN THEN NaN ELSE round(t[1], t[2])
        Returned(r) ==
            IF r.fail THEN << >> ELSE sorted([k \in 1..Len(r.out) |-> Rounded(r.out[k])])
        Looped(elements) == Returned(parse_elements(elements, << >>))
        Split(parts) == Looped([k \in 1..Len(parts) |-> element(parts[k])])
    IN Split(split(time_str, ","))

\* the --delays arguments a run is started with
DelayArgs ==
    { "-1,0,1", "0:1:2", "0.5,0.5", "2,0:0.5:1", "-2000,-1250,1", "1,abc", "", "None" }

\* parse_timedelays of each of them
ParsedOf == [arg \in DelayArgs |-> parse_timedelays(arg)]

\* -------------------------------------------------- move_stages_to_time
\* The delay stage converts a delay into stage travel and back; the conversion
\* belongs to the stage driver and is linear. Positions are kept in nanometres
\* and times in femtoseconds; NmPerFs is the travel per femtosecond of delay.
NmPerFs == 160

\* a position given in millimetres, as the source writes them
Mm(position) == position * 1000000

delay_to_distance(time) == NmPerFs * time

distance_to_delay(distance) == distance \div NmPerFs

\* the calls on the two stages
absolute_move(position) ==
    [stage |-> "compensation_stage", call |-> "absolute_move", arg |-> position, t0 |-> 0]

absolute_time(time, t0) ==
    [stage |-> "delay_stage", call |-> "absolute_time", arg |-> time, t0 |-> t0]

move_stages_to_time_exclusive(time) ==
    LET new_pos == delay_to_distance(time) + Mm(T0_POS)
    IN IF new_pos < Mm(0 - 100)
       THEN << absolute_move(0 - 120),
               absolute_time(time - distance_to_delay(Mm(0 - 120)), T0_POS) >>
       ELSE IF new_pos < Mm(100)
       THEN << absolute_move(0), absolute_time(time, T0_POS) >>
       ELSE << absolute_move(120),
               absolute_time(time - distance_to_delay(Mm(120)), T0_POS) >>

move_stages_to_time_uncompensated(time) ==
    LET new_pos == delay_to_distance(time) + Mm(T0_POS)
    IN IF new_pos <= Mm(0 - 100)
       THEN << absolute_move(0 - 120), absolute_time(time, T0_POS) >>
       ELSE IF new_pos <= Mm(100)
       THEN << absolute_move(0), absolute_time(time, T0_POS) >>
       ELSE << absolute_move(120), absolute_time(time, T0_POS) >>

\* the stage commands move_stages_to_time(xps, time) issues, in order
move_stages_to_time(time) ==
    LET new_pos == delay_to_distance(time) + Mm(T0_POS)
    IN IF new_pos <= Mm(0 - 100)
       THEN << absolute_move(0 - 120),
               absolute_time(time - distance_to_delay(Mm(0 - 120)), T0_POS) >>
       ELSE IF new_pos <= Mm(100)
       THEN << absolute_move(0), absolute_time(time, T0_POS) >>
       ELSE << absolute_move(120),
               absolute_time(time - distance_to_delay(Mm(120)), T0_POS) >>

\* ------------------------------------------------------------ exceptions
None == "None"
Unbound == "<unbound>"
NoException == [type |-> None, at |-> None]

\* str(e), the text the fatal handler and the retry loop write to the log
str(e) ==
    CASE e = "TimeoutError" -> "detector timed out"
      [] e = "UnboundLocalError" ->
             "cannot access local variable 'exception' where it is not associated with a value"
      [] e = "FileExistsError" -> "[Errno 17] File exists"
      [] e = "OSError" -> "[Errno 5] Input/output error"
      [] OTHER -> "hardware communication failure"

\* fmt_log: "<timestamp> | <message>\n" with the timestamp read from the clock
fmt_log(t, message) == [ts |-> t, msg |-> message]

append_to_log_rewriting(logfile, msg) == << msg >>

\* with open(logfile, "a") as f: f.write(msg), on the lines of the file
append_to_log(logfile, msg) == Append(logfile, msg)

\* ----------------------------------------------------------------- state
VARIABLES
    pc,          \* position of run
    n_scans,     \* cmd_args.n_scans
    delays_arg,  \* cmd_args.delays, the string given on the command line
    delays,      \* the list delays of run (shuffled in place)
    i,           \* loop variable of the scan loop
    j,           \* number of delays of this scan already handled
    pump, probe, \* the two shutters: enabled or not
    moving,      \* stage motion commanded and not yet waited for
    stage_time,  \* the last delay handed to move_stages_to_time: << >> or <<delay>>
    now,         \* epoch clock, seconds
    log,         \* lines of experiment.log
    dirs,        \* directories that exist under savedir
    files,       \* set of <<directory, filename>> written
    exc,         \* the exception that ended run and where it was raised
    plan,        \* timeouts the detector will raise in this acquisition
    attempts,    \* acquire_image calls of this acquisition
    nfail,       \* timeouts raised in this acquisition
    faillines,   \* failure lines logged by this acquisition's retry loop
    ret,         \* how the last acquire_image call ended
    stops,       \* detector.stop() calls of the last acquire_image call
    acquired,    \* delays acquired in this scan, in order
    moved,       \* delays moved to in this scan, in order
    stages,      \* the stage commands of the last move_stages_to_time call
    hist,        \* the images saved so far, in order: phase, directory, file
    gui,         \* the live view window: timer, grabber thread, slot being run
    exposure,    \* cmd_args.exposure, in milliseconds
    C            \* C.Detector.Config: ExposureTime and TriggerPeriod, in milliseconds

\* the variables of run
run_vars == << pc, n_scans, delays_arg, delays, i, j, pump, probe, moving, stage_time, now,
               log, dirs, files, exc, plan, attempts, nfail, faillines, ret, stops,
               acquired, moved, stages, hist, exposure, C >>

vars == << run_vars, gui >>

\* --exposure when it is not given: 10 s
DefaultExposure == 10000

\* the 0.002 s that lines 140-145 keep between exposure and trigger period
HardwareLimit == 2

\* the configuration a live view session leaves in the detector: its exposure
\* of 0.3 s and the trigger period that goes with it
LiveViewConfig == [ExposureTime |-> 300, TriggerPeriod |-> 300 + HardwareLimit]

\* line 140: is the trigger period assigned before the exposure time
period_first(c, e) == e > c.TriggerPeriod + HardwareLimit

\* lines 141, 145: C.Detector.Config.TriggerPeriod = cmd_args.exposure + 0.002
set_TriggerPeriod(c, e) == [c EXCEPT !.TriggerPeriod = e + HardwareLimit]

\* lines 142, 144: C.Detector.Config.ExposureTime = cmd_args.exposure
set_ExposureTime(c, e) == [c EXCEPT !.ExposureTime = e]

\* lines 140-145
configure(c, e) ==
    IF period_first(c, e) THEN set_ExposureTime(set_TriggerPeriod(c, e), e)
    ELSE set_TriggerPeriod(set_ExposureTime(c, e), e)

\* CheetahImageGrabber.connected: the class attribute; no instance sets it
connected == FALSE

\* LiveViewUi after __init__: the image timer is created but not started, the
\* grabber thread is created but not started; stop is actionStop.isChecked()
LiveViewUi(stop) ==
    [pc |-> "idle", slot |-> "None", timer |-> FALSE, thread |-> "new",
     interruption |-> FALSE, aborted |-> FALSE, stop_checked |-> stop, returned |-> FALSE]

\* no delay has been commanded yet
NoDelay == << >>

Init ==
    /\ pc = "setup"
    /\ n_scans \in 0..MaxScans
    /\ delays_arg \in DelayArgs
    /\ delays = << >>
    /\ i = 0
    /\ j = 0
    /\ pump \in BOOLEAN
    /\ probe \in BOOLEAN
    /\ moving = FALSE
    /\ stage_time = NoDelay
    /\ now = 0
    /\ log = << >>
    /\ dirs \in SUBSET ({DIR_LASER_BG, DIR_PUMP_OFF, DIR_DARK}
                            \cup { scandir_name(k) : k \in 0..(MaxScans - 1) })
    /\ files = {}
    /\ exc = NoException
    /\ plan = 0
    /\ attempts = 0
    /\ nfail = 0
    /\ faillines = 0
    /\ ret = [kind |-> "none", value |-> None, cause |-> None]
    /\ stops = 0
    /\ acquired = << >>
    /\ moved = << >>
    /\ stages = << >>
    /\ hist = << >>
    /\ gui = LiveViewUi(TRUE)
    /\ exposure = DefaultExposure
    /\ C = LiveViewConfig

\* ------------------------------------------------------------ primitives
\* a mkdir that accepts a directory that exists
mkdir_exists_accepted(d, ds) == [exc |-> None, dirs |-> ds \cup {d}]

\* os.mkdir: FileExistsError when the directory exists, else it is created
mkdir(d, ds) ==
    IF d \in ds THEN [exc |-> "FileExistsError", dirs |-> ds]
    ELSE [exc |-> None, dirs |-> ds \cup {d}]

\* a mkdir whose FileExistsError is not caught
mkdir_unguarded(d, ds) == mkdir(d, ds)

\* try: mkdir(...) except FileExistsError: pass
mkdir_exist_ok(d, ds) == [exc |-> None, dirs |-> mkdir(d, ds).dirs]

\* a shuffle that draws every position anew from the list's values
shuffle_with_replacement(s) == [1..Len(s) -> {s[k] : k \in DOMAIN s}]

\* random.shuffle(delays): every rearrangement of the list's positions
shuffle(s) == { [k \in 1..Len(s) |-> s[p[k]]] : p \in Permutations(1..Len(s)) }

\* "except TimeoutError as exception:" - the value of the local name exception
\* when the except clause is left (Python 3 deletes the target of "as")
except_as_exit(e) == Unbound

\* "return exception": reading a local name that is not bound raises
return_local(v) ==
    IF v = Unbound THEN [kind |-> "raise", value |-> "UnboundLocalError"]
    ELSE [kind |-> "return", value |-> v]

acquire_image_saving_first(outcome) ==
    IF outcome = None
    THEN [end |-> return_local(None), stops |-> 0, saved |-> TRUE]
    ELSE IF outcome = "TimeoutError"
    THEN [end |-> return_local(except_as_exit(outcome)), stops |-> 1, saved |-> TRUE]
    ELSE [end |-> [kind |-> "raise", value |-> outcome], stops |-> 0, saved |-> TRUE]

\* acquire_image, given what the try body does: None (image fetched and saved),
\* "TimeoutError", or another exception. stops counts detector.stop() calls.
acquire_image(outcome) ==
    IF outcome = None
    THEN [end |-> return_local(None), stops |-> 0, saved |-> TRUE]
    ELSE IF outcome = "TimeoutError"
    THEN [end |-> return_local(except_as_exit(outcome)), stops |-> 1, saved |-> FALSE]
    ELSE [end |-> [kind |-> "raise", value |-> outcome], stops |-> 0, saved |-> FALSE]

\* the shutter settings of the four phases
DarkShutters == [pump |-> FALSE, probe |-> FALSE]
LaserBgShutters_swapped == [pump |-> FALSE, probe |-> TRUE]
LaserBgShutters == [pump |-> TRUE, probe |-> FALSE]
PumpOffShutters == [pump |-> FALSE, probe |-> TRUE]
PumpOnPump == TRUE
FinishShutters_left_open == [pump |-> TRUE, probe |-> FALSE]
FinishShutters == [pump |-> FALSE, probe |-> FALSE]

\* a scan loop that runs once too often
scan_loop_off_by_one(k, n) == k <= n

\* range(cmd_args.n_scans): does the scan loop run its body for index k
scan_loop_continues(k, n) == k < n

\* a wait that returns at once
wait_end_of_move_skipped(m) == m

\* xps.delay_stage._wait_end_of_move(): motion is over when it returns
wait_end_of_move(m) == FALSE

\* the log messages of run
MsgStart(n, k) ==
    "starting experiment with " \o ToString(n) \o " scans at " \o ToString(k) \o " delays"
MsgLaserBg == "laser background image acquired"
MsgPumpOff == "pump off image acquired"
MsgPumpOn_zero_based(scan, delay) ==
    "pump on image acquired at scan " \o ToString(scan - 1) \o " and time-delay "
        \o Fmt_1f(delay) \o "ps"
MsgPumpOn(scan, delay) ==
    "pump on image acquired at scan " \o ToString(scan) \o " and time-delay "
        \o Fmt_1f(delay) \o "ps"
MsgComplete == "EXPERIMENT COMPLETE"

\* ------------------------------------------------------------- the run
\* a handler that re-raises without writing the log
FatalAt_unlogged(t, l, e) ==
    /\ log' = l
    /\ pc' = "raised"
    /\ exc' = [type |-> e, at |-> pc]

\* except Exception as e: append_to_log(...); raise e   (the log so far is l,
\* the clock reads t)
FatalAt(t, l, e) ==
    /\ log' = append_to_log(l, fmt_log(t, str(e)))
    /\ pc' = "raised"
    /\ exc' = [type |-> e, at |-> pc]

Fatal(l, e) == FatalAt(now, l, e)

\* a new acquisition begins: the detector will time out p times, then succeed
StartAcquisition(p) ==
    /\ plan' = p
    /\ attempts' = 0
    /\ nfail' = 0
    /\ faillines' = 0

\* shutter commands whose failure leaves both shutters disabled
SetShutters_disabling_on_failure(a, b, l, f, next) ==
    /\ pump' = IF f = 0 THEN a ELSE FALSE
    /\ probe' = IF f = 0 THEN b ELSE FALSE
    /\ IF f = 0 THEN log' = l /\ pc' = next /\ exc' = exc
       ELSE Fatal(l, "HardwareError")

\* s_pump.enable(a); s_probe.enable(b), either of which may fail (f = 1, 2);
\* the log is l when the first call is made
SetShutters(a, b, l, f, next) ==
    /\ pump' = IF f = 1 THEN pump ELSE a
    /\ probe' = IF f = 0 THEN b ELSE probe
    /\ IF f = 0 THEN log' = l /\ pc' = next /\ exc' = exc
       ELSE Fatal(l, "HardwareError")

\* lines 128-158: parse the delays, connect the hardware, create the log
Setup ==
    /\ pc = "setup"
    /\ \E fault \in BOOLEAN :
          IF fault
          THEN /\ pc' = "raised"
               /\ exc' = [type |-> "HardwareError", at |-> pc]
               /\ UNCHANGED << delays, log, C >>
          ELSE /\ delays' = ParsedOf[delays_arg]
               /\ C' = configure(C, exposure)
               /\ log' = << fmt_log(now, MsgStart(n_scans, Len(delays'))) >>
               /\ pc' = "mkdirs"
               /\ exc' = exc
    /\ UNCHANGED << gui, exposure, n_scans, delays_arg, i, j, pump, probe, moving,
                    stage_time, now, dirs, files, plan, attempts, nfail, faillines, ret,
                    stops, hist, acquired, moved, stages >>

\* lines 160-171: the three fixed directories; f = 1..3 is an OSError other
\* than FileExistsError at that mkdir
MkFixedDirs ==
    /\ pc = "mkdirs"
    /\ \E f \in 0..3 :
          LET Made(k, d, m) ==
                  IF m.exc # None THEN m
                  ELSE IF f = k THEN [exc |-> "OSError", dirs |-> m.dirs]
                  ELSE mkdir_exist_ok(d, m.dirs)
              Ended(m) ==
                  /\ dirs' = m.dirs
                  /\ IF m.exc = None THEN pc' = "scan_loop" /\ UNCHANGED << log, exc >>
                     ELSE Fatal(log, m.exc)
          IN Ended(Made(3, DIR_DARK,
                        Made(2, DIR_PUMP_OFF,
                             Made(1, DIR_LASER_BG, [exc |-> None, dirs |-> dirs]))))
    /\ UNCHANGED << gui, exposure, C, n_scans, delays_arg, delays, i, j, pump, probe, moving, stage_time,
                    now, files, plan, attempts, nfail, faillines, ret, stops, hist,
                    acquired, moved, stages >>

\* line 172: for i in range(n_scans)
ScanLoop ==
    /\ pc = "scan_loop"
    /\ pc' = IF scan_loop_continues(i, n_scans) THEN "dark_shutters" ELSE "finish"
    /\ UNCHANGED << gui, exposure, C, n_scans, delays_arg, delays, i, j, pump, probe, moving, stage_time,
                    now, log, dirs, files, exc, plan, attempts, nfail, faillines, ret,
                    stops, hist, acquired, moved, stages >>

\* one pass of "while True: exception = acquire_image(...); if exception: log
\* else: break" for the image <<dir, filename>> of a phase
AcquireLoop(phase, dir, filename, next) ==
    \E tick \in 0..(IF now < MaxTime THEN 1 ELSE 0), other \in BOOLEAN :
        LET outcome == IF nfail < plan THEN "TimeoutError"
                       ELSE IF other THEN "HardwareError" ELSE None
            r == acquire_image(outcome)
        IN /\ now' = now + tick
           /\ attempts' = attempts + 1
           /\ nfail' = IF outcome = "TimeoutError" THEN nfail + 1 ELSE nfail
           /\ ret' = [kind |-> r.end.kind, value |-> r.end.value, cause |-> outcome]
           /\ hist' = IF r.saved
                      THEN Append(hist, [phase |-> phase, dir |-> dir, file |-> filename])
                      ELSE hist
           /\ stops' = r.stops
           /\ files' = IF r.saved THEN files \cup { << dir, filename >> } ELSE files
           /\ IF r.end.kind = "raise"
              THEN FatalAt(now + tick, log, r.end.value) /\ faillines' = faillines
              ELSE IF r.end.value # None
              THEN /\ log' = append_to_log(log, fmt_log(now + tick, str(r.end.value)))
                   /\ faillines' = faillines + 1
                   /\ UNCHANGED << pc, exc >>
              ELSE /\ pc' = next
                   /\ UNCHANGED << log, exc, faillines >>

\* lines 173-174
DarkSetShutters ==
    /\ pc = "dark_shutters"
    /\ \E f \in 0..2, p \in 0..MaxFail :
          /\ SetShutters(DarkShutters.pump, DarkShutters.probe, log, f, "dark_acq")
          /\ StartAcquisition(p)
    /\ UNCHANGED << gui, exposure, C, n_scans, delays_arg, delays, i, j, moving, stage_time, now, dirs,
                    files, ret, stops, hist, acquired, moved, stages >>

\* lines 175-180
DarkAcquire ==
    /\ pc = "dark_acq"
    /\ AcquireLoop("Dark", DIR_DARK, epoch_filename("dark_epoch_", now), "laser_bg_shutters")
    /\ UNCHANGED << gui, exposure, C, n_scans, delays_arg, delays, i, j, pump, probe, moving, stage_time,
                    dirs, plan, acquired, moved, stages >>

\* lines 181-182
LaserBgSetShutters ==
    /\ pc = "laser_bg_shutters"
    /\ \E f \in 0..2, p \in 0..MaxFail :
          /\ SetShutters(LaserBgShutters.pump, LaserBgShutters.probe, log, f, "laser_bg_acq")
          /\ StartAcquisition(p)
    /\ UNCHANGED << gui, exposure, C, n_scans, delays_arg, delays, i, j, moving, stage_time, now, dirs,
                    files, ret, stops, hist, acquired, moved, stages >>

\* lines 183-188
LaserBgAcquire ==
    /\ pc = "laser_bg_acq"
    /\ AcquireLoop("LaserBackground", DIR_LASER_BG,
                    epoch_filename("laser_bg_epoch_", now), "pump_off_shutters")
    /\ UNCHANGED << gui, exposure, C, n_scans, delays_arg, delays, i, j, pump, probe, moving, stage_time,
                    dirs, plan, acquired, moved, stages >>

\* lines 189-191
PumpOffSetShutters ==
    /\ pc = "pump_off_shutters"
    /\ \E f \in 0..2, p \in 0..MaxFail :
          /\ SetShutters(PumpOffShutters.pump, PumpOffShutters.probe,
                         append_to_log(log, fmt_log(now, MsgLaserBg)), f, "pump_off_acq")
          /\ StartAcquisition(p)
    /\ UNCHANGED << gui, exposure, C, n_scans, delays_arg, delays, i, j, moving, stage_time, now, dirs,
                    files, ret, stops, hist, acquired, moved, stages >>

\* lines 192-197
PumpOffAcquire ==
    /\ pc = "pump_off_acq"
    /\ AcquireLoop("PumpOff", DIR_PUMP_OFF,
                    epoch_filename("pump_off_epoch_", now), "pump_on_prepare")
    /\ UNCHANGED << gui, exposure, C, n_scans, delays_arg, delays, i, j, pump, probe, moving, stage_time,
                    dirs, plan, acquired, moved, stages >>

\* lines 198-203: log, pump shutter, scan directory, shuffle;
\* f = 1 is a failure of s_pump.enable, f = 2 an OSError of mkdir
PumpOnPrepare ==
    /\ pc = "pump_on_prepare"
    /\ \E f \in 0..2 :
          LET l == append_to_log(log, fmt_log(now, MsgPumpOff))
              m == mkdir(scandir_name(i), dirs)
          IN /\ pump' = IF f = 1 THEN pump ELSE PumpOnPump
             /\ IF f = 1 THEN Fatal(l, "HardwareError") /\ UNCHANGED << dirs, delays >>
                ELSE IF f = 2 THEN Fatal(l, "OSError") /\ UNCHANGED << dirs, delays >>
                ELSE IF m.exc # None THEN Fatal(l, m.exc) /\ UNCHANGED << dirs, delays >>
                ELSE /\ dirs' = m.dirs
                     /\ delays' \in shuffle(delays)
                     /\ log' = l
                     /\ pc' = "delay_loop"
                     /\ exc' = exc
    /\ j' = 0
    /\ acquired' = << >>
    /\ moved' = << >>
    /\ UNCHANGED << gui, exposure, C, n_scans, delays_arg, i, probe, moving, stage_time, now, files, plan,
                    attempts, nfail, faillines, ret, stops, hist, stages >>

\* lines 204-205: for delay in delays
DelayLoop ==
    /\ pc = "delay_loop"
    /\ IF j < Len(delays)
       THEN pc' = "move" /\ i' = i
       ELSE pc' = "scan_loop" /\ i' = i + 1
    /\ UNCHANGED << gui, exposure, C, n_scans, delays_arg, delays, j, pump, probe, moving, stage_time, now,
                    log, dirs, files, exc, plan, attempts, nfail, faillines, ret, stops, hist,
                    acquired, moved, stages >>

\* line 207: move_stages_to_time(xps, delay)
MoveStages ==
    /\ pc = "move"
    /\ \E fault \in BOOLEAN :
          IF fault
          THEN Fatal(log, "HardwareError") /\ UNCHANGED << moving, stage_time, moved, stages >>
          ELSE /\ stage_time' = << delays[j + 1] >>
               /\ stages' = move_stages_to_time(delays[j + 1])
               /\ moving' = TRUE
               /\ moved' = Append(moved, delays[j + 1])
               /\ pc' = "wait"
               /\ UNCHANGED << log, exc >>
    /\ UNCHANGED << gui, exposure, C, n_scans, delays_arg, delays, i, j, pump, probe, now, dirs, files,
                    plan, attempts, nfail, faillines, ret, stops, hist, acquired >>

\* line 208: xps.delay_stage._wait_end_of_move()
WaitEndOfMove ==
    /\ pc = "wait"
    /\ \E fault \in BOOLEAN, p \in 0..MaxFail :
          IF fault
          THEN /\ Fatal(log, "HardwareError")
               /\ UNCHANGED << moving, plan, attempts, nfail, faillines >>
          ELSE /\ moving' = wait_end_of_move(moving)
               /\ StartAcquisition(p)
               /\ pc' = "pumpon_acq"
               /\ UNCHANGED << log, exc >>
    /\ UNCHANGED << gui, exposure, C, n_scans, delays_arg, delays, i, j, pump, probe, stage_time, now,
                    dirs, files, ret, stops, hist, acquired, moved, stages >>

\* lines 209-214
PumpOnAcquire ==
    /\ pc = "pumpon_acq"
    /\ AcquireLoop("PumpOnSeries", scandir_name(i), pumpon_filename(delays[j + 1]),
                   "pumpon_log")
    /\ acquired' = IF pc' = "pumpon_log" THEN Append(acquired, delays[j + 1]) ELSE acquired
    /\ UNCHANGED << gui, exposure, C, n_scans, delays_arg, delays, i, j, pump, probe, moving, stage_time,
                    dirs, plan, moved, stages >>

\* line 215
PumpOnLog ==
    /\ pc = "pumpon_log"
    /\ log' = append_to_log(log, fmt_log(now, MsgPumpOn(i + 1, delays[j + 1])))
    /\ j' = j + 1
    /\ pc' = "delay_loop"
    /\ UNCHANGED << gui, exposure, C, n_scans, delays_arg, delays, i, pump, probe, moving, stage_time, now,
                    dirs, files, exc, plan, attempts, nfail, faillines, ret, stops, hist,
                    acquired, moved, stages >>

\* lines 217-220
Finish ==
    /\ pc = "finish"
    /\ \E f \in 0..2 :
          SetShutters(FinishShutters.pump, FinishShutters.probe,
                      IF f = 0 THEN append_to_log(log, fmt_log(now, MsgComplete)) ELSE log,
                      f, "done")
    /\ UNCHANGED << gui, exposure, C, n_scans, delays_arg, delays, i, j, moving, stage_time, now, dirs,
                    files, plan, attempts, nfail, faillines, ret, stops, hist, acquired, moved, stages >>

Next ==
    \/ Setup
    \/ MkFixedDirs
    \/ ScanLoop
    \/ DarkSetShutters
    \/ DarkAcquire
    \/ LaserBgSetShutters
    \/ LaserBgAcquire
    \/ PumpOffSetShutters
    \/ PumpOffAcquire
    \/ PumpOnPrepare
    \/ DelayLoop
    \/ MoveStages
    \/ WaitEndOfMove
    \/ PumpOnAcquire
    \/ PumpOnLog
    \/ Finish

Spec == Init /\ [][Next]_vars

\* the interpreter keeps executing run until it returns or raises
FairSpec == Spec /\ WF_vars(Next)

\* ------------------------------------------------- parse_timedelays alone
\* The parser called on its own, as parse_args does with --delays (line 50
\* reads the string, line 131 parses it), on strings of 1..MaxElems elements.
ElemStrings ==
    { "1", "-1", "0.5", "2.0005", "nan", "abc", "",
      "1:2", "0:1:5", "1:0.1:1.3", "2:-1:0", "0:0:1" }

RECURSIVE join(_, _)
\* sep.join(parts)
join(parts, sep) ==
    IF Len(parts) = 1 THEN parts[1]
    ELSE parts[1] \o sep \o join(Tail(parts), sep)

ParseArgs ==
    { join(parts, ",") : parts \in UNION { [1..n -> ElemStrings] : n \in 1..MaxElems } }

ParseInit ==
    /\ pc = "parse"
    /\ n_scans = 0
    /\ delays_arg \in ParseArgs
    /\ delays = << >>
    /\ i = 0
    /\ j = 0
    /\ pump = FALSE
    /\ probe = FALSE
    /\ moving = FALSE
    /\ stage_time = NoDelay
    /\ now = 0
    /\ log = << >>
    /\ dirs = {}
    /\ files = {}
    /\ exc = NoException
    /\ plan = 0
    /\ attempts = 0
    /\ nfail = 0
    /\ faillines = 0
    /\ ret = [kind |-> "none", value |-> None, cause |-> None]
    /\ stops = 0
    /\ acquired = << >>
    /\ moved = << >>
    /\ stages = << >>
    /\ hist = << >>
    /\ gui = LiveViewUi(TRUE)
    /\ exposure = DefaultExposure
    /\ C = LiveViewConfig

\* delays = parse_timedelays(time_str)
Parse ==
    /\ pc = "parse"
    /\ delays' = parse_timedelays(delays_arg)
    /\ pc' = "parsed"
    /\ UNCHANGED << gui, exposure, C, n_scans, delays_arg, i, j, pump, probe, moving, stage_time, now, log,
                    dirs, files, exc, plan, attempts, nfail, faillines, ret, stops,
                    acquired, moved, hist, stages >>

ParseNext == Parse

ParseSpec == ParseInit /\ [][ParseNext]_vars

\* ------------------------------------------------------- the live view
\* LiveViewUi and its CheetahImageGrabber: the GUI thread runs one slot at a
\* time; the grabber thread runs __get_image beside it.
Slots == { "capture_image", "start_stop", "update_exposure", "update_destination" }

\* image_grabber_thread between start() and the end of its event loop
Running == { "started", "measuring", "emitted" }

GuiInit ==
    /\ pc = "gui"
    /\ n_scans = 0
    /\ delays_arg = ""
    /\ delays = << >>
    /\ i = 0
    /\ j = 0
    /\ pump = FALSE
    /\ probe = FALSE
    /\ moving = FALSE
    /\ stage_time = NoDelay
    /\ now = 0
    /\ log = << >>
    /\ dirs = {}
    /\ files = {}
    /\ exc = NoException
    /\ plan = 0
    /\ attempts = 0
    /\ nfail = 0
    /\ faillines = 0
    /\ ret = [kind |-> "none", value |-> None, cause |-> None]
    /\ stops = 0
    /\ acquired = << >>
    /\ moved = << >>
    /\ stages = << >>
    /\ hist = << >>
    /\ \E stop \in BOOLEAN : gui = LiveViewUi(stop)
    /\ exposure = DefaultExposure
    /\ C = LiveViewConfig

\* QThread.start(): nothing when the thread runs, else __get_image is started
\* and the interruption request is cleared
thread_start(g) ==
    IF g.thread \in Running THEN g
    ELSE [g EXCEPT !.thread = "started", !.interruption = FALSE]

\* liveview.py line 58: image_timer.timeout is connected to the thread's start;
\* the GUI thread handles the timeout between two slots
TimerTimeout ==
    /\ gui.pc = "idle"
    /\ gui.timer
    /\ gui' = thread_start(gui)
    /\ UNCHANGED run_vars

\* __get_image, lines 75-78: update the info, start the preview, sleep
GetImagePreview ==
    /\ gui.thread = "started"
    /\ gui' = [gui EXCEPT !.thread = "measuring"]
    /\ UNCHANGED run_vars

\* __get_image, lines 79-85: the detector is idle, fetch the image, emit it
GetImageEmit ==
    /\ gui.thread = "measuring"
    /\ gui' = [gui EXCEPT !.thread = "emitted"]
    /\ UNCHANGED run_vars

\* __get_image, lines 87-88: quit the thread's event loop
GetImageQuit ==
    /\ gui.thread = "emitted"
    /\ gui' = [gui EXCEPT !.thread = "finished", !.interruption = FALSE]
    /\ UNCHANGED run_vars

\* wrapper, lines 190-191: self.image_timer.stop()
wrapper_stop_timer(g) == [g EXCEPT !.pc = "stopped", !.timer = FALSE]

\* A wrapped slot is triggered: one of the four slots; triggering actionStop or
\* actionStart sets the checked state of the group before start_stop is called
WrapperStopTimer ==
    /\ gui.pc = "idle"
    /\ \E slot \in Slots, stop \in BOOLEAN :
          /\ slot # "start_stop" => stop = gui.stop_checked
          /\ gui' = wrapper_stop_timer([gui EXCEPT !.slot = slot, !.stop_checked = stop,
                                                   !.aborted = FALSE])
    /\ UNCHANGED run_vars

\* wrapper, lines 192-197: if connected and the thread has not finished, stop
\* the detector, request the interruption and wait() until the thread has
\* finished (at once for a thread that was never started)
WrapperAbort ==
    /\ gui.pc = "stopped"
    /\ gui' = IF connected /\ gui.thread # "finished"
              THEN [gui EXCEPT !.pc = "body", !.aborted = TRUE,
                               !.interruption = (gui.thread \in Running),
                               !.thread = IF gui.thread \in Running THEN "finished" ELSE @]
              ELSE [gui EXCEPT !.pc = "body"]
    /\ UNCHANGED run_vars

\* wrapper, line 198: f(self), for the four wrapped slots of liveview.py
\*   capture_image (194-210) reads cheetah_image_grabber.Q when connected,
\*     an attribute the grabber does not have
\*   start_stop (214-221)
\*   update_exposure (233-241) changes neither timer nor thread
\*   update_destination (244-254): eval of the text entered may raise
WrappedBody ==
    /\ gui.pc = "body"
    /\ \E raises \in BOOLEAN :
          gui' = IF gui.slot = "capture_image"
                 THEN [gui EXCEPT !.pc = IF connected THEN "raised" ELSE "after"]
                 ELSE IF gui.slot = "start_stop"
                 THEN [gui EXCEPT !.pc = "after",
                                  !.timer = IF gui.stop_checked THEN FALSE ELSE TRUE]
                 ELSE IF gui.slot = "update_destination" /\ raises
                 THEN [gui EXCEPT !.pc = "raised"]
                 ELSE [gui EXCEPT !.pc = "after"]
    /\ UNCHANGED run_vars

\* wrapper, lines 199-201: restart the timer unless Stop is checked
WrapperRestart ==
    /\ gui.pc = "after"
    /\ gui' = [gui EXCEPT !.pc = "idle", !.returned = TRUE,
                          !.timer = IF ~gui.stop_checked THEN TRUE ELSE @]
    /\ UNCHANGED run_vars

GuiNext ==
    \/ TimerTimeout
    \/ GetImagePreview
    \/ GetImageEmit
    \/ GetImageQuit
    \/ WrapperStopTimer
    \/ WrapperAbort
    \/ WrappedBody
    \/ WrapperRestart

GuiSpec == GuiInit /\ [][GuiNext]_vars

\* ------------------------------------------- the detector configuration
\* Lines 137-145 of run alone, one assignment at a time, for exposures and
\* prior trigger periods of 1..MaxMs and MaxMs + HardwareLimit milliseconds at
\* most. The detector is found in a configuration that respects the limit.
ConfigInit ==
    /\ pc = "configure"
    /\ n_scans = 0
    /\ delays_arg = ""
    /\ delays = << >>
    /\ i = 0
    /\ j = 0
    /\ pump = FALSE
    /\ probe = FALSE
    /\ moving = FALSE
    /\ stage_time = NoDelay
    /\ now = 0
    /\ log = << >>
    /\ dirs = {}
    /\ files = {}
    /\ exc = NoException
    /\ plan = 0
    /\ attempts = 0
    /\ nfail = 0
    /\ faillines = 0
    /\ ret = [kind |-> "none", value |-> None, cause |-> None]
    /\ stops = 0
    /\ acquired = << >>
    /\ moved = << >>
    /\ stages = << >>
    /\ hist = << >>
    /\ gui = LiveViewUi(TRUE)
    /\ exposure \in 1..MaxMs
    /\ \E period \in (1 + HardwareLimit)..(MaxMs + HardwareLimit) :
          \E time \in 1..(period - HardwareLimit) :
             C = [ExposureTime |-> time, TriggerPeriod |-> period]

ConfigFrame ==
    UNCHANGED << gui, exposure, n_scans, delays_arg, delays, i, j, pump, probe, moving,
                 stage_time, now, log, dirs, files, exc, plan, attempts, nfail, faillines,
                 ret, stops, acquired, moved, stages, hist >>

\* lines 140-141
AssignTriggerPeriodFirst ==
    /\ pc = "configure"
    /\ period_first(C, exposure)
    /\ C' = set_TriggerPeriod(C, exposure)
    /\ pc' = "period_assigned"
    /\ ConfigFrame

\* line 142
AssignExposureTimeSecond ==
    /\ pc = "period_assigned"
    /\ C' = set_ExposureTime(C, exposure)
    /\ pc' = "configured"
    /\ ConfigFrame

\* lines 143-144
AssignExposureTimeFirst ==
    /\ pc = "configure"
    /\ ~period_first(C, exposure)
    /\ C' = set_ExposureTime(C, exposure)
    /\ pc' = "exposure_assigned"
    /\ ConfigFrame

\* line 145
AssignTriggerPeriodSecond ==
    /\ pc = "exposure_assigned"
    /\ C' = set_TriggerPeriod(C, exposure)
    /\ pc' = "configured"
    /\ ConfigFrame

ConfigNext ==
    \/ AssignTriggerPeriodFirst
    \/ AssignExposureTimeSecond
    \/ AssignExposureTimeFirst
    \/ AssignTriggerPeriodSecond

ConfigSpec == ConfigInit /\ [][ConfigNext]_vars

\* ======================================================== properties
AcquirePcs == {"dark_acq", "laser_bg_acq", "pump_off_acq", "pumpon_acq"}

Last(s) == s[Len(s)]

Count(s, x) == Cardinality({k \in DOMAIN s : s[k] = x})

Msgs(l) == [k \in DOMAIN l |-> l[k].msg]

\* the last acquire_image call was one whose acquisition step timed out
TimedOut == ret.cause = "TimeoutError"

\* C1: whenever the acquisition step of an acquire_image call raises a
\* timeout, detector.stop() is called and the call returns the timeout
\* exception as a value; nothing is raised out of acquire_image.
C1_TimeoutReturnedAsValue ==
    TimedOut => /\ stops = 1
                /\ ret.kind = "return"
                /\ ret.value = "TimeoutError"

\* C2: a detector timeout never ends the run: after an attempt that timed
\* out the run is still at the same acquisition (same phase, scan and delay)
\* and the timeout is the last line of the log.
C2_TimeoutNeverFatal ==
    TimedOut => /\ pc \in AcquirePcs
                /\ exc = NoException
                /\ Last(log).msg = str("TimeoutError")

\* C3: an acquisition whose detector times out on the first plan attempts
\* and then succeeds takes exactly plan + 1 attempts and writes exactly plan
\* failure lines, all of them before the image is obtained.
C3_RetryCount ==
    (attempts > 0 /\ pc \notin AcquirePcs /\ ret.cause \in {None, "TimeoutError"})
        => /\ attempts = plan + 1
           /\ faillines = plan
           /\ ret.cause = None

\* the sorted delay sequence run starts from
Parsed == ParsedOf[delays_arg]

\* images per scan: dark, laser background, pump off, one per delay
PerScan == 3 + Len(Parsed)

\* the phase and the directory of the k-th image of a run
ExpectedPhase(k) ==
    LET o == (k - 1) % PerScan
    IN IF o = 0 THEN "Dark" ELSE IF o = 1 THEN "LaserBackground"
       ELSE IF o = 2 THEN "PumpOff" ELSE "PumpOnSeries"

ExpectedDir(k) ==
    LET o == (k - 1) % PerScan
    IN IF o = 0 THEN "dark_image" ELSE IF o = 1 THEN "laser_background"
       ELSE IF o = 2 THEN "pump_off"
       ELSE "scan_000" \o ToString((k - 1) \div PerScan + 1)

\* C4: the images of a run are taken in the order Dark, LaserBackground,
\* PumpOff, PumpOnSeries, scan after scan; an acquisition is attempted only
\* when the acquisitions before it in that order have succeeded; scan i writes
\* into scan_<i, 4 digits>; a run that ends normally has done exactly n_scans
\* scans.
C4_PhaseOrder ==
    /\ \A k \in DOMAIN hist :
          hist[k].phase = ExpectedPhase(k) /\ hist[k].dir = ExpectedDir(k)
    /\ Len(hist) <= n_scans * PerScan
    /\ pc = "dark_acq" => Len(hist) % PerScan = 0 /\ Len(hist) = i * PerScan
    /\ pc = "laser_bg_acq" => Len(hist) = i * PerScan + 1
    /\ pc = "pump_off_acq" => Len(hist) = i * PerScan + 2
    /\ pc = "pumpon_acq" => Len(hist) = i * PerScan + 3 + j
    /\ pc = "done" => Len(hist) = n_scans * PerScan

C4_Witness == pc = "done" /\ n_scans = 2 /\ Len(hist) = 12

\* C5: whenever an acquisition attempt is about to start, the shutters are in
\* the state of its phase.
C5_ShuttersMatchPhase ==
    /\ pc = "dark_acq" => ~pump /\ ~probe
    /\ pc = "laser_bg_acq" => pump /\ ~probe
    /\ pc = "pump_off_acq" => ~pump /\ probe
    /\ pc = "pumpon_acq" => pump

C5_Witness == pc = "pumpon_acq" /\ i = 1 /\ j = 1 /\ pump /\ probe

\* C6: a pump-on acquisition attempt starts only after move_stages_to_time
\* was issued for its delay and the motion-complete wait has returned.
C6_NoAcquireWhileMoving ==
    pc = "pumpon_acq" => /\ ~moving
                         /\ stage_time = << delays[j + 1] >>
                         /\ Len(moved) = j + 1
                         /\ Last(moved) = delays[j + 1]

C6_Witness == pc = "pumpon_acq" /\ j = 2 /\ ~moving /\ stage_time = << delays[3] >>

\* C7: "EXPERIMENT COMPLETE" is written at most once, only when every image of
\* every scan has been acquired, and a finished run has it as its last log
\* line with both shutters disabled.
C7_CompleteAtEnd ==
    LET n == Count(Msgs(log), "EXPERIMENT COMPLETE")
    IN /\ n <= 1
       /\ n = 1 => /\ pc = "done"
                   /\ Len(hist) = n_scans * PerScan
       /\ pc = "done" => /\ ~pump /\ ~probe
                         /\ Last(log).msg = "EXPERIMENT COMPLETE"

C7_Witness ==
    pc = "done" /\ n_scans = 2 /\ Len(Parsed) = 3 /\ Last(log).msg = "EXPERIMENT COMPLETE"

\* exceptions that do not come from a detector timeout
OtherException == exc.type \in {"HardwareError", "OSError", "FileExistsError"}

LoggedAndFinal ==
    /\ log # << >>
    /\ Last(log).msg = str(exc.type)
    /\ Count(Msgs(log), "EXPERIMENT COMPLETE") = 0
    /\ ~ENABLED Next

\* C8 as stated: every exception other than a detector timeout that occurs
\* during a run is appended to the log and re-raised, ending the run.
C8_AnyExceptionLogged == OtherException => LoggedAndFinal

\* C8 amended: every exception other than a detector timeout raised inside the
\* try block of run (from directory creation on) is appended to the log and
\* re-raised, ending the run; one raised while the hardware is set up, before
\* the log is created, ends the run without a log line.
C8_ExceptionInTryLogged ==
    /\ (OtherException /\ exc.at # "setup") => LoggedAndFinal
    /\ (OtherException /\ exc.at = "setup") => log = << >> /\ ~ENABLED Next

C8_Witness ==
    pc = "raised" /\ exc = [type |-> "FileExistsError", at |-> "pump_on_prepare"]

\* C9: with no exception other than detector timeouts, and finitely many
\* timeouts per acquisition, the run eventually logs "EXPERIMENT COMPLETE".
C9_EventuallyComplete == <>(pc = "done" \/ OtherException)

SameBag(s, t) ==
    \A x \in {s[k] : k \in DOMAIN s} \cup {t[k] : k \in DOMAIN t} : Count(s, x) = Count(t, x)

ScanFiles(n) == { f[2] : f \in { g \in files : g[1] = "scan_000" \o ToString(n) } }

\* C10: in every scan the pump-on order is a permutation of the parsed delay
\* sequence, each of its delays is moved to and acquired once, and every
\* completed scan holds the same set of pump-on file names.
C10_ShufflePermutation ==
    /\ (pc # "setup" /\ exc.at # "setup") => SameBag(delays, Parsed)
    /\ (pc = "scan_loop" /\ i > 0) =>
          /\ moved = delays
          /\ acquired = delays
          /\ \A n \in 1..i : ScanFiles(n) = ScanFiles(1)
          /\ Cardinality(ScanFiles(1)) = Cardinality({Parsed[k] : k \in DOMAIN Parsed})

C10_Witness ==
    pc = "scan_loop" /\ i = 2 /\ Len(delays) = 3 /\ delays # Parsed /\ acquired = delays

\* ---------------------------------------------------------------------------
\* C11: parse_timedelays returns the empty sequence, and raises nothing, when
\* the string is empty, when an element is neither a float literal nor three
\* colon-separated float literals, or when a colon-separated element does not
\* have exactly three parts; one bad element empties the whole result.
InputElems == split(delays_arg, ",")

IsFloatLiteral(s) == float(s).ok

IsTriple(s) ==
    LET parts == split(s, ":")
    IN Len(parts) = 3 /\ \A k \in 1..3 : IsFloatLiteral(parts[k])

BadElement(s) == ~IsFloatLiteral(s) /\ ~IsTriple(s)

C11_BadInputGivesEmpty ==
    (pc = "parsed" /\ (delays_arg = "" \/ \E k \in DOMAIN InputElems : BadElement(InputElems[k])))
        => (delays = << >> /\ exc = NoException)

\* a valid literal next to a bad element: the result is still empty
C11_Witness == pc = "parsed" /\ delays_arg = "1,1:2" /\ delays = << >>

\* ---------------------------------------------------------------------------
\* C12: for every input string whose elements all parse, the output of
\* parse_timedelays is sorted ascending, every value is rounded to 3 decimals,
\* and the output holds exactly the literal values and the values of the
\* ranges (start, start + step, ... below stop), nothing added or lost.
InputElements == [k \in DOMAIN InputElems |-> element(InputElems[k])]

\* a float literal, or three float literals that np.arange accepts
Parses(elem) ==
    \/ elem.kind = "float"
    \/ elem.kind = "range" /\ NaN \notin {elem.a, elem.b, elem.c} /\ elem.b # 0

AllParse == \A k \in DOMAIN InputElements : Parses(InputElements[k])

\* x <= y on floats
le(x, y) == x # NaN /\ y # NaN /\ x <= y

SortedAscending(s) == \A k \in 1..(Len(s) - 1) : le(s[k], s[k + 1])

\* start, start + step, ... on the near side of stop, in exact arithmetic
HalfOpenRange(start, step, stop) ==
    LET n == IF step > 0 /\ stop > start THEN (stop - start + step - 1) \div step
             ELSE IF step < 0 /\ stop < start
                  THEN (start - stop + (0 - step) - 1) \div (0 - step)
                  ELSE 0
    IN [k \in 1..n |-> start + (k - 1) * step]

RECURSIVE Concatenation(_)
\* the literals, rounded to 3 decimals, and the ranges, in the order given
Concatenation(elements) ==
    IF elements = << >> THEN << >>
    ELSE LET elem == Head(elements)
         IN (IF elem.kind = "range" THEN HalfOpenRange(elem.a, elem.b, elem.c)
             ELSE IF elem.a = NaN THEN << NaN >>
             ELSE << round(elem.a, elem.b) >>) \o Concatenation(Tail(elements))

C12_SortedRoundedExact ==
    (pc = "parsed" /\ AllParse)
        => (SortedAscending(delays) /\ SameBag(delays, Concatenation(InputElements)))

\* ---------------------------------------------------------------------------
\* C13: the values an accepted range start:step:stop contributes are start,
\* start + step, start + 2 * step, ..., every one of them on the near side of
\* stop: stop itself is excluded ("0:1:5" gives 0, 1, 2, 3, 4).
OneRange ==
    /\ Len(InputElements) = 1
    /\ InputElements[1].kind = "range"
    /\ Parses(InputElements[1])

C13_RangeExcludesStop ==
    (pc = "parsed" /\ OneRange)
        => LET start == InputElements[1].a
               step == InputElements[1].b
               stop == InputElements[1].c
           IN /\ \A k \in DOMAIN delays :
                    IF step > 0 THEN delays[k] < stop ELSE delays[k] > stop
              /\ SameBag(delays, HalfOpenRange(start, step, stop))

\* ---------------------------------------------------------------------------
\* C14 as stated: the delay sequence parse_timedelays produces contains no
\* value twice, whatever the input, repeated literals and overlaps included.
C14_NoValueTwice ==
    pc = "parsed" =>
        \A a, b \in DOMAIN delays : (a # b /\ delays[a] # NaN) => delays[a] # delays[b]

\* the values element elem adds to the list, as the code computes them
Produced(elem) ==
    IF elem.kind = "range" THEN arange(elem.a, elem.c, elem.b)
    ELSE IF elem.a = NaN THEN << NaN >>
    ELSE << round(elem.a, elem.b) >>

RECURSIVE Collected(_)
Collected(elements) ==
    IF elements = << >> THEN << >>
    ELSE Produced(Head(elements)) \o Collected(Tail(elements))

\* C14 amended: nothing removes duplicates. The sequence holds every value as
\* many times as the elements produce it: a literal given twice, or given
\* once and produced by a range as well, is in the sequence twice.
C14_DuplicatesKept ==
    (pc = "parsed" /\ AllParse) => SameBag(delays, Collected(InputElements))

\* a literal that a range produces as well is in the result twice
C14_Witness == pc = "parsed" /\ delays_arg = "1,0:1:5" /\ delays = << 0, 1000, 1000, 2000, 3000, 4000 >>

\* ---------------------------------------------------------------------------
\* C15: with new_pos = delay_to_distance(delay) + 100, move_stages_to_time
\* moves the compensation stage to -120 if new_pos <= -100, to 0 if
\* -100 < new_pos <= 100 and to 120 if new_pos > 100, and issues exactly one
\* compensation move and one time command to the delay stage, anchored at 100.
Commands(stage) == { k \in DOMAIN stages : stages[k].stage = stage }

CompensationMove == stages[CHOOSE k \in DOMAIN stages : k \in Commands("compensation_stage")]

TimeCommand == stages[CHOOSE k \in DOMAIN stages : k \in Commands("delay_stage")]

C15_ZoneBoundaries ==
    stage_time # NoDelay =>
        LET new_pos == delay_to_distance(stage_time[1]) + Mm(100)
        IN /\ Cardinality(Commands("compensation_stage")) = 1
           /\ Cardinality(Commands("delay_stage")) = 1
           /\ Len(stages) = 2
           /\ CompensationMove.call = "absolute_move"
           /\ TimeCommand.call = "absolute_time"
           /\ TimeCommand.t0 = 100
           /\ new_pos <= Mm(0 - 100) => CompensationMove.arg = 0 - 120
           /\ (Mm(0 - 100) < new_pos /\ new_pos <= Mm(100)) => CompensationMove.arg = 0
           /\ new_pos > Mm(100) => CompensationMove.arg = 120

\* a delay whose new_pos is exactly -100 has been moved to, on the -120 branch
C15_Witness ==
    /\ pc = "pumpon_acq"
    /\ stage_time # NoDelay
    /\ delay_to_distance(stage_time[1]) + Mm(100) = Mm(0 - 100)
    /\ CompensationMove.arg = 0 - 120

\* ---------------------------------------------------------------------------
\* C16: in every zone the time commanded to the delay stage plus the delay of
\* the compensation position chosen equals the requested delay.
C16_EffectiveDelay ==
    stage_time # NoDelay =>
        TimeCommand.arg + distance_to_delay(Mm(CompensationMove.arg)) = stage_time[1]

\* a delay of the upper zone has been moved to, with a shortened stage time
C16_Witness ==
    /\ pc = "pumpon_acq"
    /\ stage_time = << 1000 >>
    /\ CompensationMove.arg = 120
    /\ TimeCommand.arg # 1000

\* ---------------------------------------------------------------------------
\* C17: the log is created at the start of the run with the "starting
\* experiment" line, and from then on every step leaves the lines written so
\* far in place: the log before a step is a prefix of the log after it.
IsPrefix(s, t) == Len(s) <= Len(t) /\ SubSeq(t, 1, Len(s)) = s

C17_LogAppendOnly ==
    [][ /\ (pc = "setup" /\ pc' # "raised")
            => Msgs(log') = << MsgStart(n_scans, Len(delays')) >>
        /\ pc # "setup" => IsPrefix(log, log') ]_vars

\* a finished run: the first line is still the start line, others follow it
C17_Witness ==
    /\ pc = "done"
    /\ Len(log) > 3
    /\ log[1].msg = MsgStart(n_scans, Len(delays))
    /\ Last(log).msg = MsgComplete

\* ---------------------------------------------------------------------------
\* C18: a completed run of one scan over k distinct delays leaves exactly one
\* file in each of dark_image, laser_background and pump_off and exactly k
\* files in scan_0001, and nothing else; an acquire_image call that fails
\* (timeout or other exception) adds no file.
FilesIn(dir) == { f \in files : f[1] = dir }

Distinct(s) == \A a, b \in DOMAIN s : a # b => s[a] # s[b]

C18_FilesOfOneScan ==
    /\ [](( pc = "done" /\ n_scans = 1 /\ Distinct(delays))
            => /\ \A dir \in {DIR_DARK, DIR_LASER_BG, DIR_PUMP_OFF} :
                     Cardinality(FilesIn(dir)) = 1
               /\ Cardinality(FilesIn("scan_0001")) = Len(delays)
               /\ Cardinality(files) = 3 + Len(delays))
    /\ [][ (attempts' = attempts + 1 /\ ret'.cause # None) => files' = files ]_vars

\* the run of "-1,0,1" with one scan has finished with 3 files in scan_0001
C18_Witness ==
    /\ pc = "done"
    /\ n_scans = 1
    /\ delays_arg = "-1,0,1"
    /\ Cardinality(FilesIn("scan_0001")) = 3
    /\ Cardinality(FilesIn(DIR_DARK)) = 1

\* ---------------------------------------------------------------------------
\* C19 as stated: the log of a fault-free run holds, in order, one line per
\* completed stage (Dark, LaserBackground, PumpOff and each pump-on delay, of
\* each scan) and then the "EXPERIMENT COMPLETE" line. The start line is left
\* aside; a run that reaches the end has met no fault.
C19_LinePerStage ==
    pc = "done" =>
        /\ Len(Tail(log)) = Len(hist) + 1
        /\ Last(log).msg = MsgComplete

\* the line run writes after the stage that saved h, if it writes one
StageLine(h) ==
    IF h.phase = "Dark" THEN << >>
    ELSE IF h.phase = "LaserBackground" THEN << MsgLaserBg >>
    ELSE IF h.phase = "PumpOff" THEN << MsgPumpOff >>
    ELSE LET at == CHOOSE p \in (1..n_scans) \X DOMAIN delays :
                       /\ h.dir = scandir_name(p[1] - 1)
                       /\ h.file = pumpon_filename(delays[p[2]])
         IN << "pump on image acquired at scan " \o ToString(at[1])
                  \o " and time-delay " \o Fmt_1f(delays[at[2]]) \o "ps" >>

RECURSIVE StageLines(_)
StageLines(h) ==
    IF h = << >> THEN << >>
    ELSE StageLines(SubSeq(h, 1, Len(h) - 1)) \o StageLine(Last(h))

\* C19 amended: the log of a fault-free run is the start line, then in order
\* one line for each LaserBackground, PumpOff and pump-on image saved (none
\* for a Dark image), then "EXPERIMENT COMPLETE"; a pump-on line names the
\* scan, counted from 1, and the delay of the image saved just before it.
C19_LogOfFaultFreeRun ==
    pc = "done" =>
        Msgs(log) = << MsgStart(n_scans, Len(delays)) >> \o StageLines(hist) \o << MsgComplete >>

\* two scans of three delays have been logged
C19_Witness ==
    /\ pc = "done"
    /\ n_scans = 2
    /\ delays_arg = "-1,0,1"
    /\ Len(hist) = 12
    /\ Len(log) = 12

\* ---------------------------------------------------------------------------
\* C20 as stated: a pump-on file is named pumpon_<sign><integer part, zero-
\* padded to 3 digits>.<3 decimals>ps.tif, so that the delay -1 gives
\* pumpon_-001.000ps.tif; two different delays never give the same name.
SignOf(d) == IF d < 0 THEN "-" ELSE "+"

NameWithIntegerDigits(d, digits) ==
    "pumpon_" \o SignOf(d) \o ZeroPad(ToString(Abs(d) \div 1000), digits)
        \o "." \o ZeroPad(ToString(Abs(d) % 1000), 3) \o "ps.tif"

PumpOnFiles == { f \in files : f[1] \notin {DIR_DARK, DIR_LASER_BG, DIR_PUMP_OFF} }

C20_ThreeDigitName ==
    \A f \in PumpOnFiles : \E k \in DOMAIN delays : f[2] = NameWithIntegerDigits(delays[k], 3)

\* delays around zero and around every change in the number of digits
NameDelays ==
    UNION { { ParsedOf[arg][k] : k \in DOMAIN ParsedOf[arg] } : arg \in DelayArgs }
        \cup { s * (1000 * a + b) : s \in {0 - 1, 1}, a \in {0, 1, 9, 10, 99, 100, 999, 1000, 99999},
                                     b \in {0, 1, 10, 100, 999} }

NamesDiffer ==
    \A d1, d2 \in NameDelays : d1 # d2 => pumpon_filename(d1) # pumpon_filename(d2)

\* C20 amended: the integer part is zero-padded to 5 digits (the name of the
\* delay is 10 characters wide, sign and point included): -1, 0 and 1 give
\* pumpon_-00001.000ps.tif, pumpon_+00000.000ps.tif, pumpon_+00001.000ps.tif;
\* two different delays never give the same name.
C20_FiveDigitName ==
    /\ \A f \in PumpOnFiles : \E k \in DOMAIN delays : f[2] = NameWithIntegerDigits(delays[k], 5)
    /\ (pc = "pumpon_acq" /\ j < Len(delays))
           => pumpon_filename(delays[j + 1]) = NameWithIntegerDigits(delays[j + 1], 5)
    /\ pumpon_filename(0 - 1000) = "pumpon_-00001.000ps.tif"
    /\ pumpon_filename(0) = "pumpon_+00000.000ps.tif"
    /\ pumpon_filename(1000) = "pumpon_+00001.000ps.tif"
    /\ NamesDiffer

\* the three files of the delays -1, 0 and 1 have been written
C20_Witness ==
    /\ delays_arg = "-1,0,1"
    /\ { "pumpon_-00001.000ps.tif", "pumpon_+00000.000ps.tif", "pumpon_+00001.000ps.tif" }
           = { f[2] : f \in FilesIn("scan_0001") }

\* ---------------------------------------------------------------------------
\* C21: creating the three fixed directories is idempotent: whichever of them
\* exist when the run starts, the creation step raises no FileExistsError,
\* removes no directory, and, unless another OSError ends the run there, goes
\* on to the first scan with all three directories in place.
FixedDirs == {DIR_LASER_BG, DIR_PUMP_OFF, DIR_DARK}

C21_FixedDirsIdempotent ==
    [][ pc = "mkdirs"
            => /\ exc'.type # "FileExistsError"
               /\ dirs \subseteq dirs'
               /\ exc' = NoException
                      => /\ pc' = "scan_loop"
                         /\ FixedDirs \subseteq dirs'
                         /\ log' = log ]_vars

\* the creation step has passed and the first scan is about to start; only
\* the start line is in the log
C21_Witness ==
    /\ pc = "scan_loop"
    /\ i = 0
    /\ n_scans > 0
    /\ FixedDirs \subseteq dirs
    /\ exc = NoException
    /\ Len(log) = 1

\* ---------------------------------------------------------------------------
\* C22: a malformed or empty delay specification raises no error: the run
\* starts with no delays, never moves a stage and never takes a pump-on image;
\* when it completes, every scan has its Dark, LaserBackground and PumpOff
\* image, in this order, and its directory, and the log ends with "EXPERIMENT
\* COMPLETE"; and it does end, completed or stopped by a fault of the hardware
\* or the file system.
\* "None" is str(None), the string parsed when --delays is not given.
MalformedArgs == { "1,abc", "", "None" }

PcsOfDelay == { "move", "wait", "pumpon_acq", "pumpon_log" }

C22_MalformedRunsWithoutDelays ==
    /\ [](delays_arg \in MalformedArgs
            => /\ delays = << >>
               /\ pc \notin PcsOfDelay
               /\ stage_time = NoDelay /\ stages = << >> /\ ~moving
               /\ \A k \in DOMAIN hist : hist[k].phase # "PumpOnSeries"
               /\ pc \notin {"setup", "raised"} => log[1].msg = MsgStart(n_scans, 0)
               /\ pc = "done"
                      => /\ Len(hist) = 3 * n_scans
                         /\ \A k \in 0..(n_scans - 1) :
                               /\ hist[3 * k + 1].phase = "Dark"
                               /\ hist[3 * k + 2].phase = "LaserBackground"
                               /\ hist[3 * k + 3].phase = "PumpOff"
                               /\ scandir_name(k) \in dirs
                         /\ Last(log).msg = MsgComplete)
    /\ (delays_arg \in MalformedArgs) ~> (pc \in {"done", "raised"})

\* two scans of the malformed "1,abc" have completed
C22_Witness ==
    /\ pc = "done"
    /\ delays_arg = "1,abc"
    /\ n_scans = 2
    /\ Len(hist) = 6
    /\ {scandir_name(0), scandir_name(1)} \subseteq dirs

\* ---------------------------------------------------------------------------
\* C23: for every slot wrapped by interrupt_acquisition, while the wrapped
\* body runs the image timer is stopped and the grabber thread is not running
\* an acquisition; after the body has returned, the image timer runs if and
\* only if Stop is not checked.
C23_AcquisitionInterrupted ==
    /\ gui.pc = "body" => ~gui.timer /\ gui.thread \notin Running
    /\ (gui.pc = "idle" /\ gui.returned) => (gui.timer <=> ~gui.stop_checked)

\* ---------------------------------------------------------------------------
\* C24: the configuration of the detector respects the hardware limit at
\* every step: after each single assignment of ExposureTime or TriggerPeriod,
\* TriggerPeriod >= ExposureTime + 0.002 s; and when both are assigned,
\* ExposureTime is the requested exposure and TriggerPeriod is 0.002 s more.
C24_LimitAtEveryStep ==
    /\ C.TriggerPeriod >= C.ExposureTime + HardwareLimit
    /\ pc = "configured"
          => C.ExposureTime = exposure /\ C.TriggerPeriod = exposure + HardwareLimit

\* ---------------------------------------------------------------------------
\* C25: an acquire_image call that ends in a timeout leaves the output
\* directories as they were: it writes no file and creates no directory, and
\* it changes neither shutter nor the stages; a file is written only by a call
\* that succeeds, one file as its last step. After a call that timed out, no
\* later step changes the shutters or the stages either.
ShuttersAndStages == << pump, probe, moving, stage_time, stages >>

C25_TimeoutLeavesOutputs ==
    [][ /\ (attempts' = attempts + 1 /\ ret'.cause = "TimeoutError")
            => /\ files' = files
               /\ hist' = hist
               /\ dirs' = dirs
               /\ ShuttersAndStages' = ShuttersAndStages
        /\ (files' # files \/ hist' # hist)
            => /\ attempts' = attempts + 1
               /\ ret'.cause = None
               /\ ret' = [kind |-> "return", value |-> None, cause |-> None]
               /\ Len(hist') = Len(hist) + 1
               /\ files' = files \cup { << Last(hist').dir, Last(hist').file >> }
               /\ pc' # pc
        /\ TimedOut => ShuttersAndStages' = ShuttersAndStages ]_vars

\* the detector has timed out in a pump-on acquisition: the three images taken
\* before are the only files, the pump shutter is open, the stage is where it
\* was sent
C25_Witness ==
    /\ TimedOut
    /\ exc.at = "pumpon_acq"
    /\ Cardinality(files) = 3
    /\ Len(hist) = 3
    /\ pump /\ probe
    /\ stage_time # NoDelay
    /\ ~moving

\* ---------------------------------------------------------------------------
\* C26: creating the scan directory is not idempotent: if scan_<i+1> exists
\* when scan i has taken its Dark, LaserBackground and PumpOff images, the run
\* ends there in the fatal path: the error is logged and raised again, the
\* three images of the scan are the last ones taken, and no stage has been
\* moved and no pump-on image taken in this scan.
LastThreePhases(h) ==
    /\ Len(h) >= 3
    /\ h[Len(h) - 2].phase = "Dark"
    /\ h[Len(h) - 1].phase = "LaserBackground"
    /\ h[Len(h)].phase = "PumpOff"

C26_ExistingScanDirIsFatal ==
    /\ [][ (pc = "pump_on_prepare" /\ scandir_name(i) \in dirs)
              => /\ pc' = "raised"
                 /\ exc'.type # None
                 /\ exc'.at = "pump_on_prepare"
                 /\ Last(log').msg = str(exc'.type)
                 /\ Len(log') = Len(log) + 2
                 /\ hist' = hist /\ LastThreePhases(hist)
                 /\ dirs' = dirs /\ files' = files
                 /\ moved' = << >> /\ acquired' = << >>
                 /\ << moving, stage_time, stages >>' = << moving, stage_time, stages >> ]_vars
    /\ [](exc.type = "FileExistsError"
            => /\ pc = "raised"
               /\ exc.at = "pump_on_prepare"
               /\ scandir_name(i) \in dirs
               /\ LastThreePhases(hist)
               /\ moved = << >> /\ acquired = << >>
               /\ Last(log).msg = str("FileExistsError"))

\* the second scan has found scan_0002 in place, after a first scan with delays
C26_Witness ==
    /\ exc = [type |-> "FileExistsError", at |-> "pump_on_prepare"]
    /\ i = 1
    /\ Len(delays) = 3
    /\ Len(hist) = 9
    /\ Last(hist).phase = "PumpOff"
    /\ Last(log).msg = str("FileExistsError")

\* ---------------------------------------------------------------------------
\* C27: on the fatal path no shutter command is issued: the handler that logs
\* and re-raises leaves both shutters as the statements before the exception
\* left them, so a run that ends by an exception can leave shutters enabled;
\* both shutters are disabled at the end of a run that completes.
\* The pump shutter command of the statement block at a position of run, if
\* the block has one before its last statement
PumpCommanded(at) ==
    CASE at = "dark_shutters" -> {DarkShutters.pump}
      [] at = "laser_bg_shutters" -> {LaserBgShutters.pump}
      [] at = "pump_off_shutters" -> {PumpOffShutters.pump}
      [] at = "pump_on_prepare" -> {PumpOnPump}
      [] at = "finish" -> {FinishShutters.pump}
      [] OTHER -> {}

C27_NoShutterCommandOnFatalPath ==
    /\ [][ pc' = "raised"
              => /\ probe' = probe
                 /\ pump' \in {pump} \cup PumpCommanded(pc) ]_vars
    /\ [](pc = "done" => ~pump /\ ~probe)

\* a run has ended by an exception in a pump-on acquisition with both
\* shutters enabled
C27_Witness ==
    /\ pc = "raised"
    /\ exc.at = "pumpon_acq"
    /\ Last(log).msg = str(exc.type)
    /\ pump /\ probe

====
